---- MODULE Spec2Model ----
(***************************************************************************)
(* Model of the depth-map demo pages.                                      *)
(*                                                                         *)
(*  Spec       the tone-range page (src/unnamed/part_001): image upload,   *)
(*             tone-range slider, depth slider and ThreeDScene.            *)
(*  SpecPaint  the painting page (src/unnamed/part_000): image upload,     *)
(*             depth slider, stroke end (mouseup) and ThreeDScene with     *)
(*             updateDepthTexture.                                         *)
(*  SpecNorm   normalizeBrightness (src/v2..v5/app.js) applied to an       *)
(*             ImageData buffer.                                           *)
(*                                                                         *)
(* JavaScript runs the handlers on one thread: an action is the code that  *)
(* runs between two suspension points (await) of a handler.                *)
(***************************************************************************)
EXTENDS Integers, Sequences, FiniteSets, TLC

\* ---------------------------------------------------------------- bounds
\* Number of updateSceneWithImage invocations (uploads, tone-range changes).
MaxRequests == 3
\* Number of uploads on the painting page.
MaxPaintRequests == 2
\* Number of stroke ends (mouseup) on the painting page.
MaxStrokes == 1
\* Number of pixels of an ImageData buffer handed to normalizeBrightness.
NPixels == 3
\* Number of successive normalizeBrightness calls on one buffer.
MaxPasses == 2
\* Number of faces estimateFaces may report.
MaxFaces == 2
\* Number of initThreeJsScene calls (v5: uploads, tone-range changes).
MaxInits == 3

Tasks == 1..MaxRequests
\* The images the user may upload.
Images == {1, 2}

\* --------------------------------------------------- program constants
\* <input id="depthSlider" ... value="1"> in tenths (step 0.1).
DepthSliderDefault == 10
\* displacementScale: -0.2 in thousandths.
InitialDisplacementScale == -200
\* -scale * 0.2 with scale in tenths, result in thousandths.
ScaleFactor == 20

\* Values the depth slider takes (tenths).
DepthSliderValues == {DepthSliderDefault, 25}

VARIABLES
  \* ThreeDScene
  currentUpdateId,   \* this.currentUpdateId
  mesh,              \* this.mesh: 0 is null, t the mesh created by task t
  sceneMeshes,       \* the meshes among this.scene.children
  material,          \* material[t]: the material of the mesh created by task t
  geometryDisposed,  \* geometryDisposed[t]: dispose() calls on t's geometry
  materialDisposed,  \* materialDisposed[t]: dispose() calls on t's material
  textureDisposed,   \* textureDisposed[t]: dispose() calls on t's photo texture
  \* one updateSceneWithImage invocation per task
  numRequests,       \* invocations started so far: tasks 1..numRequests
  pc,                \* pc[t]: where task t is suspended or how it ended
  image,             \* image[t]: the image argument
  updateId,          \* updateId[t]: the const captured in updateMesh, 0 before
  depthTexture,      \* depthTexture[t]: the texture passed to updateMesh
  meshBefore,        \* meshBefore[t]: this.mesh when t's updateMesh was entered
  removedMesh,       \* removedMesh[t]: the mesh t's call removed, 0 if none
  rejection,         \* rejection[t]: the awaited promise that rejected in t
  \* page
  currentImage,      \* appState.currentImage, 0 is null
  depthSlider,       \* #depthSlider value in tenths
  listeners,         \* mouseup listeners on #depthMapCanvas (part_000)
  strokes,           \* mouseup events so far (part_000)
  thrown,            \* an uncaught exception left a synchronous handler
  \* #depthMapCanvas
  canvasSize,        \* <<width, height>> of the canvas
  canvasDrawn,       \* the image whose depth map it shows, 0 when blank
  \* pixel operations
  hist,              \* the ImageData buffer: the input, then after each call
  arg,               \* the other arguments of the operation applied to hist
  \* landmark page (v8/main.js)
  initPc,            \* the await init() is suspended at, or how it ended
  predictions,       \* what detector.estimateFaces resolved with, if it did
  overlayKeypoints,  \* the keypoints drawOverlays was called with
  sceneKeypoints,    \* the keypoints setupThreeJSScenes was called with
  errorLogged,       \* the catch block of init ran
  \* v5/app.js
  plane,             \* the global plane: 0 undefined, k the mesh of call k
  sceneChildren,     \* the meshes added to the v5 scene
  planeMaterial,     \* planeMaterial[k]: the material of the mesh of call k
  initCalls,         \* initThreeJsScene calls so far
  textureLoading,    \* the calls whose textureLoader.load is pending
  typeError,         \* a depth-slider listener threw a TypeError
  \* pointer listeners of the painting page (part_000)
  painting,          \* painting[k]: the flag of the k-th set of listeners
  lastEvent,         \* the last pointer event on #depthMapCanvas
  drawCalls,         \* draw calls made by the listeners of that event
  textureUpdates,    \* updateDepthTexture calls made by its listeners
  toolSelect         \* #toolSelect's value: the tool of every listener set

sceneVars == <<currentUpdateId, mesh, sceneMeshes, material, geometryDisposed,
               materialDisposed, textureDisposed>>
taskVars == <<numRequests, pc, image, updateId, depthTexture, meshBefore,
             removedMesh, rejection>>
pageVars == <<currentImage, depthSlider, listeners, strokes, thrown>>
canvasVars == <<canvasSize, canvasDrawn>>
pureVars == <<hist, arg>>
landmarkVars == <<initPc, predictions, overlayKeypoints, sceneKeypoints,
                 errorLogged>>
v5Vars == <<plane, sceneChildren, planeMaterial, initCalls, textureLoading,
           typeError>>
brushVars == <<painting, lastEvent, drawCalls, textureUpdates,
              toolSelect>>
vars == <<sceneVars, taskVars, pageVars, canvasVars, pureVars, landmarkVars,
          v5Vars, brushVars>>

\* No call was made with any keypoints.
NoKeypoints == <<>>

\* arg of an operation that takes the buffer alone.
NoArg == <<>>

\* A <canvas> without width and height attributes is 300 by 150.
DefaultCanvasSize == <<300, 150>>

\* image.width and image.height: the uploaded images differ in size.
ImageSize(img) == <<img + 1, img + 2>>

\* Names of the THREE.CanvasTexture objects: the one task t passes to
\* updateMesh, and the one the k-th mouseup leaves in the material (every
\* registered listener creates one, the last of them stays).
TaskTexture(t) == t
StrokeTexture(k) == MaxRequests + k

\* The material of a mesh that does not exist (yet).
NoMaterial == [map |-> 0, displacementMap |-> 0, alphaMap |-> 0,
               displacementScale |-> 0]

\* ------------------------------------------------------------ ThreeDScene

\* constructor: no mesh, currentUpdateId = 0, an empty scene (lights only).
SceneInit ==
  /\ currentUpdateId = 0
  /\ mesh = 0
  /\ sceneMeshes = {}
  /\ material = [t \in Tasks |-> NoMaterial]
  /\ geometryDisposed = [t \in Tasks |-> 0]
  /\ materialDisposed = [t \in Tasks |-> 0]
  /\ textureDisposed = [t \in Tasks |-> 0]

\* const updateId = ++this.currentUpdateId: the value the call captures.
PostIncrementId == currentUpdateId
CapturedUpdateId == currentUpdateId + 1

\* if (this.mesh) { scene.remove; geometry.dispose; material.dispose;
\* this.mesh = null }, run by call t.  A disposed material is released.
DisposeWithoutRemove(t) ==
  IF mesh # 0
    THEN /\ UNCHANGED sceneMeshes
         /\ geometryDisposed' = [geometryDisposed EXCEPT ![mesh] = @ + 1]
         /\ materialDisposed' = [materialDisposed EXCEPT ![mesh] = @ + 1]
         /\ material' = [material EXCEPT ![mesh] = NoMaterial]
         /\ removedMesh' = [removedMesh EXCEPT ![t] = mesh]
         /\ mesh' = 0
    ELSE UNCHANGED <<sceneMeshes, geometryDisposed, materialDisposed, material,
                     removedMesh, mesh>>
RemoveExistingMesh(t) ==
  IF mesh # 0
    THEN /\ sceneMeshes' = sceneMeshes \ {mesh}
         /\ geometryDisposed' = [geometryDisposed EXCEPT ![mesh] = @ + 1]
         /\ materialDisposed' = [materialDisposed EXCEPT ![mesh] = @ + 1]
         /\ material' = [material EXCEPT ![mesh] = NoMaterial]
         /\ removedMesh' = [removedMesh EXCEPT ![t] = mesh]
         /\ mesh' = 0
    ELSE UNCHANGED <<sceneMeshes, geometryDisposed, materialDisposed, material,
                     removedMesh, mesh>>

\* updateMesh up to its await: ++currentUpdateId, the existing mesh is removed
\* and disposed, the PlaneGeometry is allocated and loadAsync is started.
UpdateMeshEnter(t, tex) ==
  /\ currentUpdateId' = currentUpdateId + 1
  /\ updateId' = [updateId EXCEPT ![t] = CapturedUpdateId]
  /\ depthTexture' = [depthTexture EXCEPT ![t] = tex]
  /\ meshBefore' = [meshBefore EXCEPT ![t] = mesh]
  /\ RemoveExistingMesh(t)
  /\ pc' = [pc EXCEPT ![t] = "loading"]
  /\ UNCHANGED <<textureDisposed, rejection>>

\* if (updateId !== this.currentUpdateId)
StaleNever(t) == FALSE
StaleAlways(t) == TRUE
StaleInverted(t) == updateId[t] = currentUpdateId
Stale(t) == updateId[t] # currentUpdateId

\* updateMesh after loadAsync resolved: a superseded call disposes its geometry
\* and texture and returns; the latest builds the material and the mesh and
\* adds the mesh to the scene.
UpdateMeshResume(t) ==
  IF Stale(t)
    THEN /\ geometryDisposed' = [geometryDisposed EXCEPT ![t] = @ + 1]
         /\ textureDisposed' = [textureDisposed EXCEPT ![t] = @ + 1]
         /\ pc' = [pc EXCEPT ![t] = "stale"]
         /\ UNCHANGED <<mesh, sceneMeshes, material>>
    ELSE /\ material' = [material EXCEPT ![t] =
                           [map |-> image[t],
                            displacementMap |-> depthTexture[t],
                            alphaMap |-> depthTexture[t],
                            displacementScale |-> InitialDisplacementScale]]
         /\ mesh' = t
         /\ sceneMeshes' = sceneMeshes \cup {t}
         /\ pc' = [pc EXCEPT ![t] = "done"]
         /\ UNCHANGED <<geometryDisposed, textureDisposed>>

\* The texture load of task t resolves.
LoadResolve(t) ==
  /\ pc[t] = "loading"
  /\ UpdateMeshResume(t)
  /\ UNCHANGED <<currentUpdateId, materialDisposed, numRequests, image,
                 updateId, depthTexture, meshBefore, removedMesh,
                 rejection, pageVars,
                 canvasVars, pureVars,
                 landmarkVars, v5Vars, brushVars>>

\* An async function without try and catch around its await: the failure of
\* the awaited promise is the outcome of the function's own promise.
Swallowed(failure) == "done"
Propagated(failure) == failure

\* The texture load of task t rejects: updateMesh rejects at its await, and
\* so does updateSceneWithImage, which awaits it.
LoadReject(t) ==
  /\ pc[t] = "loading"
  /\ rejection' = [rejection EXCEPT ![t] = "loadAsync"]
  /\ pc' = [pc EXCEPT ![t] = Propagated("loadFailed")]
  /\ UNCHANGED <<sceneVars, numRequests, image, updateId, depthTexture,
                 meshBefore, removedMesh, pageVars, canvasVars, pureVars,
                 landmarkVars, v5Vars, brushVars>>

\* updateDisplacementScale(scale), scale in tenths.
UnguardedDisplacementScale(scale) ==
  IF mesh # 0
    THEN /\ material' = [material EXCEPT ![mesh].displacementScale =
                                            -(scale * ScaleFactor)]
         /\ UNCHANGED thrown
    ELSE /\ thrown' = TRUE
         /\ UNCHANGED material
updateDisplacementScale(scale) ==
  IF mesh # 0
    THEN /\ material' = [material EXCEPT ![mesh].displacementScale =
                                            -(scale * ScaleFactor)]
         /\ UNCHANGED thrown
    ELSE UNCHANGED <<material, thrown>>

\* updateDepthTexture(tex) (part_000 only).
UnguardedDepthTexture(tex) ==
  IF mesh # 0
    THEN /\ material' = [material EXCEPT ![mesh].displacementMap = tex,
                                         ![mesh].alphaMap = tex]
         /\ UNCHANGED thrown
    ELSE /\ thrown' = TRUE
         /\ UNCHANGED material
DisplacementMapOnly(tex) ==
  IF mesh # 0
    THEN /\ material' = [material EXCEPT ![mesh].displacementMap = tex]
         /\ UNCHANGED thrown
    ELSE UNCHANGED <<material, thrown>>
updateDepthTexture(tex) ==
  IF mesh # 0
    THEN /\ material' = [material EXCEPT ![mesh].displacementMap = tex,
                                         ![mesh].alphaMap = tex]
         /\ UNCHANGED thrown
    ELSE UNCHANGED <<material, thrown>>

\* ------------------------------------------ tone-range page (part_001)

\* A new updateSceneWithImage(img) invocation runs up to its first await
\* (estimator.estimateDepth).  The toneRange it reads decides only the pixels
\* of the depth texture it will create, which the model tells apart by identity.
updateSceneWithImage(img) ==
  /\ numRequests < MaxRequests
  /\ numRequests' = numRequests + 1
  /\ pc' = [pc EXCEPT ![numRequests + 1] = "estimating"]
  /\ image' = [image EXCEPT ![numRequests + 1] = img]

\* handleImageUpload: image.onload of an uploaded file.
Upload(img) ==
  /\ currentImage' = img
  /\ updateSceneWithImage(img)
  /\ UNCHANGED <<sceneVars, updateId, depthTexture, meshBefore, removedMesh,
                 rejection,
                 depthSlider, listeners, strokes, thrown, canvasVars,
                 pureVars,
                 landmarkVars, v5Vars, brushVars>>

\* handleToneRangeChange: an input event of the tone-range slider; it returns
\* at once while no image has been uploaded.
ToneRangeChange ==
  /\ IF currentImage = 0
       THEN UNCHANGED <<numRequests, pc, image>>
       ELSE updateSceneWithImage(currentImage)
  /\ UNCHANGED <<sceneVars, updateId, depthTexture, meshBefore, removedMesh,
                 rejection,
                 currentImage, depthSlider, listeners, strokes, thrown,
                 canvasVars, pureVars,
                 landmarkVars, v5Vars, brushVars>>

\* estimator.estimateDepth resolves: createDepthTexture makes a canvas of the
\* image's size and runs up to its await of depthMap.toCanvasImageSource().
EstimateResolve(t) ==
  /\ pc[t] = "estimating"
  /\ pc' = [pc EXCEPT ![t] = "converting"]
  /\ UNCHANGED <<sceneVars, numRequests, image, updateId, depthTexture,
                 meshBefore, removedMesh,
                 rejection, pageVars, canvasVars, pureVars,
                 landmarkVars, v5Vars, brushVars>>

\* estimator.estimateDepth rejects: updateSceneWithImage rejects, updateMesh is
\* never called.
EstimateReject(t) ==
  /\ pc[t] = "estimating"
  /\ rejection' = [rejection EXCEPT ![t] = "estimateDepth"]
  /\ pc' = [pc EXCEPT ![t] = Propagated("estimateFailed")]
  /\ UNCHANGED <<sceneVars, numRequests, image, updateId, depthTexture,
                 meshBefore, removedMesh, pageVars, canvasVars, pureVars,
                 landmarkVars, v5Vars, brushVars>>

\* toCanvasImageSource resolves: createDepthTexture draws and masks the depth
\* image on its own canvas, copies it to #depthMapCanvas, which it resizes, and
\* returns a new CanvasTexture; updateSceneWithImage calls updateMesh with it.
ConvertResolve(t) ==
  /\ pc[t] = "converting"
  /\ canvasSize' = ImageSize(image[t])
  /\ canvasDrawn' = image[t]
  /\ UpdateMeshEnter(t, TaskTexture(t))
  /\ UNCHANGED <<numRequests, image, currentImage, depthSlider, listeners,
                 strokes, thrown, pureVars,
                 landmarkVars, v5Vars, brushVars>>

\* handleDepthSliderChange: the depth slider moved to s (tenths).
DepthSliderChange(s) ==
  /\ s # depthSlider
  /\ depthSlider' = s
  /\ updateDisplacementScale(s)
  /\ UNCHANGED <<currentUpdateId, mesh, sceneMeshes, geometryDisposed,
                 materialDisposed, textureDisposed, taskVars, currentImage,
                 listeners, strokes, canvasVars, pureVars,
                 landmarkVars, v5Vars, brushVars>>

\* --------------------------------------------- painting page (part_000)

\* handleImageUpload of the painting page: updateSceneWithImage reads no slider.
PaintUpload(img) ==
  /\ currentImage' = img
  /\ numRequests < MaxPaintRequests
  /\ numRequests' = numRequests + 1
  /\ pc' = [pc EXCEPT ![numRequests + 1] = "estimating"]
  /\ image' = [image EXCEPT ![numRequests + 1] = img]
  /\ UNCHANGED <<sceneVars, updateId, depthTexture, meshBefore, removedMesh,
                 rejection,
                 depthSlider, listeners, strokes, thrown, canvasVars,
                 pureVars,
                 landmarkVars, v5Vars, brushVars>>

\* estimator.estimateDepth resolves on the painting page:
\* generateDepthMapCanvas sets the width and height of #depthMapCanvas, which
\* clears it, and awaits depthMap.toCanvasImageSource().
PaintEstimateResolve(t) ==
  /\ pc[t] = "estimating"
  /\ pc' = [pc EXCEPT ![t] = "converting"]
  /\ canvasSize' = ImageSize(image[t])
  /\ canvasDrawn' = 0
  /\ UNCHANGED <<sceneVars, numRequests, image, updateId, depthTexture,
                 meshBefore, removedMesh, rejection, pageVars, pureVars,
                 landmarkVars, v5Vars, brushVars>>

\* The sets of listeners initializePaintingTools may have registered: one per
\* call, each with the variable painting of its own call.
ListenerSets == 1..MaxPaintRequests
Registered == 1..listeners

\* initializePaintingTools(): one more set of listeners on #depthMapCanvas,
\* with a painting flag of its own that starts false.
initializePaintingTools ==
  /\ listeners' = listeners + 1
  /\ painting' = [painting EXCEPT ![listeners + 1] = FALSE]

\* generateDepthMapCanvas after toCanvasImageSource resolved: the depth image is
\* drawn, initializePaintingTools adds one more set of listeners, then
\* getDepthTextureFromCanvas wraps #depthMapCanvas and updateMesh is called.
PaintConvertResolve(t) ==
  /\ pc[t] = "converting"
  /\ canvasDrawn' = image[t]
  /\ initializePaintingTools
  /\ UpdateMeshEnter(t, TaskTexture(t))
  /\ UNCHANGED <<numRequests, image, currentImage, depthSlider, strokes,
                 thrown, canvasSize, pureVars,
                 landmarkVars, v5Vars, lastEvent, drawCalls, textureUpdates,
                 toolSelect>>

\* mousedown or touchstart on #depthMapCanvas: every registered listener sets
\* its painting flag and calls draw.
PointerDown(ev) ==
  /\ listeners > 0
  /\ painting' = [k \in ListenerSets |-> k \in Registered \/ painting[k]]
  /\ lastEvent' = ev
  /\ drawCalls' = listeners
  /\ textureUpdates' = 0
  /\ UNCHANGED <<sceneVars, taskVars, pageVars, canvasVars, pureVars,
                 landmarkVars, v5Vars, toolSelect>>

\* change event of #toolSelect: every listener sets its variable tool, which
\* every call of initializePaintingTools also read from the select at its start.
ToolSelect(tl) ==
  /\ tl # toolSelect
  /\ toolSelect' = tl
  /\ UNCHANGED <<sceneVars, taskVars, pageVars, canvasVars, pureVars,
                 landmarkVars, v5Vars, painting, lastEvent, drawCalls,
                 textureUpdates>>

\* if (painting) in the mousemove and touchmove listeners.
MoveDrawsAlways(k) == TRUE
MoveDraws(k) == painting[k]

\* mousemove or touchmove: every registered listener whose flag is set calls
\* draw.
PointerMove(ev) ==
  /\ listeners > 0
  /\ lastEvent' = ev
  /\ drawCalls' = Cardinality({k \in Registered : MoveDraws(k)})
  /\ textureUpdates' = 0
  /\ UNCHANGED <<sceneVars, taskVars, pageVars, canvasVars, pureVars,
                 landmarkVars, v5Vars, painting,
                 toolSelect>>

\* mouseleave: every registered listener clears its flag, nothing else.
MouseLeave ==
  /\ listeners > 0
  /\ painting' = [k \in ListenerSets |-> FALSE]
  /\ lastEvent' = "mouseleave"
  /\ drawCalls' = 0
  /\ textureUpdates' = 0
  /\ UNCHANGED <<sceneVars, taskVars, pageVars, canvasVars, pureVars,
                 landmarkVars, v5Vars, toolSelect>>

\* mouseup or touchend on #depthMapCanvas: each registered listener clears its
\* flag and runs updateDepthTexture(), which wraps the canvas in a new
\* CanvasTexture and hands it to the scene; the texture of the last listener
\* is the one the material keeps.
PointerUp(ev) ==
  /\ listeners > 0
  /\ strokes < MaxStrokes
  /\ strokes' = strokes + 1
  /\ painting' = [k \in ListenerSets |-> FALSE]
  /\ lastEvent' = ev
  /\ drawCalls' = 0
  /\ textureUpdates' = listeners
  /\ updateDepthTexture(StrokeTexture(strokes + 1))
  /\ UNCHANGED <<currentUpdateId, mesh, sceneMeshes, geometryDisposed,
                 materialDisposed, textureDisposed, taskVars, currentImage,
                 depthSlider, listeners, canvasVars, pureVars,
                 landmarkVars, v5Vars, toolSelect>>

MouseUp == PointerUp("mouseup")

\* The end of generateDepthMapCanvas of one more upload, seen from the
\* canvas: the tools are initialized once more.
ToolsInitialized ==
  /\ listeners < MaxPaintRequests
  /\ initializePaintingTools
  /\ UNCHANGED <<sceneVars, taskVars, currentImage, depthSlider, strokes,
                 thrown, canvasVars, pureVars, landmarkVars, v5Vars,
                 lastEvent, drawCalls, textureUpdates,
                 toolSelect>>

\* ------------------------------------------------------- v5/app.js scene

\* displacementScale: -0.3 of the material, and -value * 0.3 of the slider
\* listener, in thousandths for a value in tenths.
V5InitialScale == -300
V5ScaleFactor == 30

InitCalls == 1..MaxInits

\* let renderer, scene, camera, plane; no call made yet.
V5Init ==
  /\ plane = 0
  /\ sceneChildren = {}
  /\ planeMaterial = [k \in InitCalls |->
                        [displacementMap |-> 0, displacementScale |-> 0]]
  /\ initCalls = 0
  /\ textureLoading = {}
  /\ typeError = FALSE

\* initThreeJsScene(depthTexture, ...), the call number initCalls + 1 with the
\* depth texture of that number: while plane is undefined it starts a texture
\* load, otherwise it replaces the displacementMap of plane's material; each
\* call adds one more input listener to the depth slider.
initThreeJsScene ==
  /\ initCalls < MaxInits
  /\ initCalls' = initCalls + 1
  /\ IF plane = 0
       THEN /\ textureLoading' = textureLoading \cup {initCalls + 1}
            /\ UNCHANGED planeMaterial
       ELSE /\ planeMaterial' =
                 [planeMaterial EXCEPT ![plane].displacementMap = initCalls + 1]
            /\ UNCHANGED textureLoading
  /\ UNCHANGED <<sceneVars, taskVars, pageVars, canvasVars, pureVars,
                 landmarkVars, brushVars, plane, sceneChildren, typeError>>

\* The onLoad callback of the textureLoader.load of call k: the mesh is built
\* from the geometry and depth texture of call k, assigned to plane and added.
TextureLoaded(k) ==
  /\ k \in textureLoading
  /\ textureLoading' = textureLoading \ {k}
  /\ planeMaterial' = [planeMaterial EXCEPT ![k] =
                         [displacementMap |-> k,
                          displacementScale |-> V5InitialScale]]
  /\ plane' = k
  /\ sceneChildren' = sceneChildren \cup {k}
  /\ UNCHANGED <<sceneVars, taskVars, pageVars, canvasVars, pureVars,
                 landmarkVars, brushVars, initCalls, typeError>>

\* The load of call k fails: load was given no onError callback.
TextureLoadError(k) ==
  /\ k \in textureLoading
  /\ textureLoading' = textureLoading \ {k}
  /\ UNCHANGED <<sceneVars, taskVars, pageVars, canvasVars, pureVars,
                 landmarkVars, brushVars, plane, sceneChildren, planeMaterial,
                 initCalls, typeError>>

\* input event of the depth slider with value s (tenths): every listener
\* runs plane.material.displacementScale = -value * 0.3, which reads a
\* property of undefined while there is no plane.
V5DepthSliderInput(s) ==
  /\ initCalls > 0
  /\ IF plane = 0
       THEN /\ typeError' = TRUE
            /\ UNCHANGED planeMaterial
       ELSE /\ planeMaterial' =
                 [planeMaterial EXCEPT ![plane].displacementScale =
                                         -(s * V5ScaleFactor)]
            /\ UNCHANGED typeError
  /\ UNCHANGED <<sceneVars, taskVars, pageVars, canvasVars, pureVars,
                 landmarkVars, brushVars, plane, sceneChildren, initCalls,
                 textureLoading>>

\* ------------------------------------- normalizeBrightness (v2 .. v5)

\* An ImageData buffer is a sequence of pixels [r, g, b, a], each channel an
\* element of a Uint8ClampedArray.
ChannelMax == 255
Levels == {0, 1, 2, 100, 200, 255}
Alphas == {0, 255}
\* Grey pixels (the depth image) and pixels whose channels differ.
Pixels ==
  {[r |-> v, g |-> v, b |-> v, a |-> al] : v \in Levels, al \in Alphas}
    \cup {[r |-> v, g |-> ChannelMax - v, b |-> 0, a |-> al] :
            v \in Levels, al \in Alphas}
Buffers == [1..NPixels -> Pixels]

\* The first loop: min and max of data[i], the red channel, starting from
\* min = 255 and max = 0.
RECURSIVE MinMaxLoop(_, _, _, _)
MinMaxLoop(data, i, min, max) ==
  IF i > Len(data)
    THEN <<min, max>>
    ELSE LET depthValue == data[i].r
         IN  MinMaxLoop(data, i + 1,
                        IF depthValue < min THEN depthValue ELSE min,
                        IF depthValue > max THEN depthValue ELSE max)

\* const range = max - min || 1
RangeFromMax(min, max) == IF max # 0 THEN max ELSE 1
Range(min, max) == IF max - min # 0 THEN max - min ELSE 1

\* A store that drops the fraction, as a Uint8Array would.
ToUint8Truncate(num, den) ==
  IF num <= 0 THEN 0
  ELSE IF num >= ChannelMax * den THEN ChannelMax
  ELSE num \div den

\* Storing the number num / den (den > 0) into a Uint8ClampedArray: clamped to
\* 0..255 and rounded to the nearest integer, ties to the even one.
ToUint8Clamp(num, den) ==
  IF num <= 0 THEN 0
  ELSE IF num >= ChannelMax * den THEN ChannelMax
  ELSE LET f == num \div den
           twice == 2 * (num - f * den)
       IN  IF twice > den THEN f + 1
           ELSE IF twice < den THEN f
           ELSE IF f % 2 = 0 THEN f ELSE f + 1

\* A rescale that forgets to subtract min.
NormalizedValueNoMin(v, min, range) == ToUint8Clamp(v * ChannelMax, range)

\* ((data[i] - min) / range) * 255, as stored.
NormalizedValue(v, min, range) == ToUint8Clamp((v - min) * ChannelMax, range)

\* A normalize that returns a buffer with max = min as it got it.
normalizeBrightnessSkipConstant(data) ==
  LET mm == MinMaxLoop(data, 1, ChannelMax, 0)
      range == Range(mm[1], mm[2])
  IN  IF mm[2] = mm[1]
        THEN data
        ELSE [i \in 1..Len(data) |->
                LET normalizedValue == NormalizedValue(data[i].r, mm[1], range)
                IN  [r |-> normalizedValue, g |-> normalizedValue,
                     b |-> normalizedValue, a |-> data[i].a]]

normalizeBrightness(data) ==
  LET mm == MinMaxLoop(data, 1, ChannelMax, 0)
      range == Range(mm[1], mm[2])
  IN  [i \in 1..Len(data) |->
         LET normalizedValue == NormalizedValue(data[i].r, mm[1], range)
         IN  [r |-> normalizedValue, g |-> normalizedValue,
              b |-> normalizedValue, a |-> data[i].a]]

\* normalizeBrightness(ctx, w, h) on the canvas holding the last buffer.
Normalize ==
  /\ Len(hist) <= MaxPasses
  /\ hist' = Append(hist, normalizeBrightness(hist[Len(hist)]))
  /\ UNCHANGED <<sceneVars, taskVars, pageVars, canvasVars, arg,
                 landmarkVars, v5Vars, brushVars>>

\* ------------------------------ alpha mask (createDepthTexture, v5 renderDepthMapToTexture)

\* Colours around the thresholds: black, grey 100, one below it, a coloured
\* pixel with the sum of grey 100, white.
MaskColours ==
  {<<0, 0, 0>>, <<100, 100, 100>>, <<100, 100, 99>>, <<255, 0, 45>>,
   <<255, 255, 255>>}
MaskAlphas == {0, 128, 255}
MaskPixels ==
  {[r |-> c[1], g |-> c[2], b |-> c[3], a |-> al] :
     c \in MaskColours, al \in MaskAlphas}
MaskBuffers == [1..NPixels -> MaskPixels]
\* parseInt(toneRangeSlider.value): the slider runs from 0 to 255.
ToneRanges == {0, 100, 255}

\* A comparison that also hides the pixels at the threshold.
AlphaAtMost(brightness, depthThreshold) ==
  IF brightness <= depthThreshold THEN 0 ELSE ChannelMax

\* data[i + 3] = brightness < depthThreshold ? 0 : 255
AlphaFor(brightness, depthThreshold) ==
  IF brightness < depthThreshold THEN 0 ELSE ChannelMax

\* The loop over the ImageData of the depth canvas.
maskByThreshold(data, toneRange) ==
  LET depthThreshold == toneRange * 3
  IN  [i \in 1..Len(data) |->
         LET brightness == data[i].r + data[i].g + data[i].b
         IN  [data[i] EXCEPT !.a = AlphaFor(brightness, depthThreshold)]]

\* The mask loop runs on the buffer with the tone range of arg.
Mask ==
  /\ Len(hist) <= MaxPasses
  /\ hist' = Append(hist, maskByThreshold(hist[Len(hist)], arg.toneRange))
  /\ UNCHANGED <<sceneVars, taskVars, pageVars, canvasVars, arg,
                 landmarkVars, v5Vars, brushVars>>

\* ------------------------------------- invertCanvasImage (part_000 1111)

\* An inversion that runs over all four bytes of a pixel.
InvertPixelWithAlpha(p) ==
  [r |-> ChannelMax - p.r, g |-> ChannelMax - p.g, b |-> ChannelMax - p.b,
   a |-> ChannelMax - p.a]

\* The loop body: data[i], data[i + 1] and data[i + 2], not data[i + 3].
InvertPixel(p) ==
  [r |-> ChannelMax - p.r, g |-> ChannelMax - p.g, b |-> ChannelMax - p.b,
   a |-> p.a]

\* The source is drawn over the cleared canvas and the loop runs over the
\* ImageData read back from it.
invertCanvasImage(source) == [i \in 1..Len(source) |-> InvertPixel(source[i])]

\* invertCanvasImage(ctx, source) with the canvas of the last call as source.
Invert ==
  /\ Len(hist) <= MaxPasses
  /\ hist' = Append(hist, invertCanvasImage(hist[Len(hist)]))
  /\ UNCHANGED <<sceneVars, taskVars, pageVars, canvasVars, arg,
                 landmarkVars, v5Vars, brushVars>>

\* ------------------------------ drawMaskedDepthMap (v8/main.js, part_000)

\* The canvas is a grid of pixels; pixel <<x, y>> is the unit square with the
\* corners <<x, y>> and <<x + 1, y + 1>>.
GridCols == {0, 1, 2}
GridRows == {0, 1}
Pix == GridCols \X GridRows
\* Keypoints lie on the pixel corners.
Corners ==
  (GridCols \cup {c + 1 : c \in GridCols})
    \X (GridRows \cup {c + 1 : c \in GridRows})
\* Positions are measured in quarters of a pixel; each pixel is sampled at
\* four points off its centre.
Fine(p) == <<4 * p[1], 4 * p[2]>>
Samples(px) ==
  {<<4 * px[1] + dx, 4 * px[2] + dy>> : dx \in {1, 3}, dy \in {1, 3}}

\* What a canvas pixel holds: nothing (transparent black), a value of the
\* depth image, or an anti-aliased blend along an edge of the clip.
Cleared == 0
Blend == -1
depthImage == [px \in Pix |-> 1 + px[1] + 3 * px[2]]

\* OUTER_RING_INDICES: the keypoints on the outline, in drawing order.
OuterRingIndices == <<1, 3, 4, 2>>

Cross(o, a, b) ==
  (a[1] - o[1]) * (b[2] - o[2]) - (a[2] - o[2]) * (b[1] - o[1])

\* p lies on the closed segment from a to b.
OnSegment(p, a, b) ==
  /\ Cross(a, b, p) = 0
  /\ (a[1] <= p[1] /\ p[1] <= b[1]) \/ (b[1] <= p[1] /\ p[1] <= a[1])
  /\ (a[2] <= p[2] /\ p[2] <= b[2]) \/ (b[2] <= p[2] /\ p[2] <= a[2])

\* The closed segments a-b and c-d have a point in common.
SegmentsMeet(a, b, c, d) ==
  \/ /\ Cross(c, d, a) * Cross(c, d, b) < 0
     /\ Cross(a, b, c) * Cross(a, b, d) < 0
  \/ OnSegment(a, c, d) \/ OnSegment(b, c, d)
  \/ OnSegment(c, a, b) \/ OnSegment(d, a, b)

\* The vertex after the i-th of a closed path.
Succ(path, i) == path[(i % Len(path)) + 1]

\* A simple polygon: distinct vertices, edges that meet only at a shared
\* vertex.
Simple(path) ==
  LET n == Len(path)
  IN  /\ n >= 3
      /\ \A i, j \in 1..n : i # j => path[i] # path[j]
      /\ \A i, j \in 1..n :
           (i < j /\ j # i + 1 /\ ~(i = 1 /\ j = n)) =>
             ~SegmentsMeet(path[i], Succ(path, i), path[j], Succ(path, j))
      /\ \A i \in 1..n :
           LET a == path[i]
               v == Succ(path, i)
               c == Succ(path, (i % n) + 1)
           IN  ~OnSegment(a, v, c) /\ ~OnSegment(c, a, v)

\* ctx.beginPath, moveTo the first ring keypoint, lineTo the others, closePath.
createOuterRingPath(keypoints) ==
  [k \in 1..Len(OuterRingIndices) |-> keypoints[OuterRingIndices[k]]]

\* The sample s lies on the outline.
OnOutline(s, path) ==
  \E i \in 1..Len(path) : OnSegment(s, Fine(path[i]), Fine(Succ(path, i)))

\* The winding number of the closed path around s.
RECURSIVE WindingFrom(_, _, _)
WindingFrom(s, path, i) ==
  IF i > Len(path)
    THEN 0
    ELSE LET a == Fine(path[i])
             b == Fine(Succ(path, i))
             turn == IF a[2] <= s[2] /\ s[2] < b[2] /\ Cross(a, b, s) > 0
                       THEN 1
                     ELSE IF b[2] <= s[2] /\ s[2] < a[2] /\ Cross(a, b, s) < 0
                       THEN -1
                     ELSE 0
         IN  turn + WindingFrom(s, path, i + 1)

\* How much of pixel px the path covers under the nonzero winding rule.
Coverage(px, path) ==
  LET side == [s \in Samples(px) |->
                 IF OnOutline(s, path) THEN "on"
                 ELSE IF WindingFrom(s, path, 1) # 0 THEN "in"
                 ELSE "out"]
  IN  IF \A s \in Samples(px) : side[s] = "in" THEN "full"
      ELSE IF \A s \in Samples(px) : side[s] = "out" THEN "none"
      ELSE "partial"

\* The intersection of two clipping regions at one pixel.
Meet(c, d) ==
  IF c = "none" \/ d = "none" THEN "none"
  ELSE IF c = "full" /\ d = "full" THEN "full"
  ELSE "partial"

\* A 2D context: the pixels of its canvas, the current clipping region and
\* the stack of saved states.
NewContext ==
  [pixels |-> [px \in Pix |-> Cleared],
   clip |-> [px \in Pix |-> "full"],
   stack |-> <<>>]

\* ctx.clearRect(0, 0, width, height)
ClearRect(ctx) ==
  [ctx EXCEPT !.pixels =
     [px \in Pix |->
        IF ctx.clip[px] = "full" \/ ctx.pixels[px] = Cleared THEN Cleared
        ELSE IF ctx.clip[px] = "partial" THEN Blend
        ELSE ctx.pixels[px]]]

\* ctx.save()
Save(ctx) == [ctx EXCEPT !.stack = Append(ctx.stack, ctx.clip)]

\* ctx.clip() with the current path
Clip(ctx, path) ==
  [ctx EXCEPT !.clip =
     [px \in Pix |-> Meet(ctx.clip[px], Coverage(px, path))]]

\* ctx.drawImage(image, 0, 0, width, height) of an opaque image as large as
\* the canvas
DrawImage(ctx, img) ==
  [ctx EXCEPT !.pixels =
     [px \in Pix |->
        IF ctx.clip[px] = "full" THEN img[px]
        ELSE IF ctx.clip[px] = "partial" THEN Blend
        ELSE ctx.pixels[px]]]

\* A function that leaves the clip in place.
RestoreNothing(ctx) == ctx

\* ctx.restore()
Restore(ctx) ==
  IF ctx.stack = <<>>
    THEN ctx
    ELSE [ctx EXCEPT !.clip = ctx.stack[Len(ctx.stack)],
                     !.stack = SubSeq(ctx.stack, 1, Len(ctx.stack) - 1)]

drawMaskedDepthMap(ctx, img, keypoints) ==
  LET cleared == ClearRect(ctx)
      saved == Save(cleared)
      clipped == Clip(saved, createOuterRingPath(keypoints))
      drawn == DrawImage(clipped, img)
  IN  Restore(drawn)

\* drawMaskedDepthMap on the context of the last call, the keypoints in arg.
DrawMasked ==
  /\ Len(hist) <= MaxPasses
  /\ hist' = Append(hist, drawMaskedDepthMap(hist[Len(hist)], depthImage,
                                               arg.keypoints))
  /\ UNCHANGED <<sceneVars, taskVars, pageVars, canvasVars, arg,
                 landmarkVars, v5Vars, brushVars>>

\* ------------------------------------- blurArea (part_000 545)

\* Pixels of the painted depth canvas: two greys and a coloured, half
\* transparent one.
BlurPixels ==
  {[r |-> 50, g |-> 50, b |-> 50, a |-> 255],
   [r |-> 200, g |-> 200, b |-> 200, a |-> 255],
   [r |-> 255, g |-> 0, b |-> 45, a |-> 128]}
BlurBuffers == [Pix -> BlurPixels]
\* Values of the #brushSize slider.
BrushSizes == {1, 2, 4}

Max(a, b) == IF a >= b THEN a ELSE b
Min(a, b) == IF a <= b THEN a ELSE b

\* The rectangle blurArea reads and writes, along one axis of the canvas:
\* startX = Math.max(0, x - size / 2) and
\* width = Math.min(size, canvas.width - startX), computed in half pixels and
\* truncated to integers by getImageData and putImageData.
BlurStart(x, size) == Max(0, 2 * x - size) \div 2
BlurExtent(x, size, length) ==
  Min(2 * size, 2 * length - Max(0, 2 * x - size)) \div 2

\* The sum of data[i] + data[i + 1] + data[i + 2] over the pixels of area.
RECURSIVE SumOver(_, _)
SumOver(area, data) ==
  IF area = {}
    THEN 0
    ELSE LET px == CHOOSE q \in area : TRUE
         IN  data[px].r + data[px].g + data[px].b
               + SumOver(area \ {px}, data)

blurArea(data, x, y, size) ==
  LET startX == BlurStart(x, size)
      startY == BlurStart(y, size)
      width == BlurExtent(x, size, Cardinality(GridCols))
      height == BlurExtent(y, size, Cardinality(GridRows))
      area == {px \in Pix : /\ startX <= px[1] /\ px[1] < startX + width
                            /\ startY <= px[2] /\ px[2] < startY + height}
      sum == SumOver(area, data)
      avg == ToUint8Clamp(sum, 3 * Cardinality(area))
  IN  [px \in Pix |->
         IF px \in area
           THEN [r |-> avg, g |-> avg, b |-> avg, a |-> data[px].a]
           ELSE data[px]]

\* draw(e) with the blur tool selected: blurArea(x, y, brushSize).
Blur ==
  /\ Len(hist) <= MaxPasses
  /\ hist' = Append(hist, blurArea(hist[Len(hist)], arg.x, arg.y, arg.size))
  /\ UNCHANGED <<sceneVars, taskVars, pageVars, canvasVars, arg,
                 landmarkVars, v5Vars, brushVars>>

\* ------------------------------------- draw: brush and eraser (part_000 577)

\* globalAlpha and the #brushOpacity slider (step 0.05) in twentieths.
FullAlpha == 20
Opacities == {0, 10, FullAlpha}
\* Values of the #brushFeather slider.
Feathers == {0, 1, 10}
Tools == {"brush", "eraser"}

\* The depth map on the canvas before any stroke: opaque greys, none black.
PaintedCanvas == [px \in Pix |-> 40 * depthImage[px]]

\* How much of pixel px the disk of radius size / 2 around <<x, y>> covers.
DiskCoverage(px, x, y, size) ==
  LET far(s) == (s[1] - 4 * x) * (s[1] - 4 * x)
                  + (s[2] - 4 * y) * (s[2] - 4 * y)
      rr == (2 * size) * (2 * size)
  IN  IF \A s \in Samples(px) : far(s) < rr THEN "full"
      ELSE IF \A s \in Samples(px) : far(s) > rr THEN "none"
      ELSE "partial"

\* The alpha of the radial gradient at the centre of pixel px: white up to
\* innerRadius = Math.max(0, brushSize / 2 - feather), transparent from
\* outerRadius = brushSize / 2 on; with equal radii nothing is painted.
GradientAlpha(px, x, y, size, feather) ==
  LET far == (4 * px[1] + 2 - 4 * x) * (4 * px[1] + 2 - 4 * x)
               + (4 * px[2] + 2 - 4 * y) * (4 * px[2] + 2 - 4 * y)
      innerRadius == Max(0, 2 * size - 4 * feather)
      outerRadius == 2 * size
  IN  IF innerRadius = outerRadius THEN "zero"
      ELSE IF far <= innerRadius * innerRadius THEN "one"
      ELSE IF far >= outerRadius * outerRadius THEN "zero"
      ELSE "part"

\* fill() with colour c (0 black, 255 white) over the value v of a pixel, for
\* the coverage of the path, the alpha of the paint and globalAlpha.
FillPixel(v, c, covered, paint, globalAlpha) ==
  IF covered = "none" \/ paint = "zero" \/ globalAlpha = 0 THEN v
  ELSE IF covered = "full" /\ paint = "one" /\ globalAlpha = FullAlpha THEN c
  ELSE IF v = c THEN c
  ELSE IF covered = "full" /\ paint = "one" /\ v # Blend
    THEN ToUint8Clamp(v * (FullAlpha - globalAlpha) + c * globalAlpha,
                      FullAlpha)
  ELSE Blend

\* A brush that leaves globalAlpha at the opacity it painted with.
AlphaLeftByBrush(opacity) == opacity

\* depthMapCtx.globalAlpha = 1.0 at the end of the brush branch.
AlphaAfterBrush(opacity) == FullAlpha

\* draw(e) at <<x, y>> with the settings of initializePaintingTools.
draw(ctx, tool, x, y, brushSize, opacity, feather) ==
  IF tool = "brush"
    THEN [pixels |->
            [px \in Pix |->
               FillPixel(ctx.pixels[px], ChannelMax,
                         DiskCoverage(px, x, y, brushSize),
                         GradientAlpha(px, x, y, brushSize, feather),
                         opacity)],
          globalAlpha |-> AlphaAfterBrush(opacity),
          tool |-> tool]
    ELSE [pixels |->
            [px \in Pix |->
               FillPixel(ctx.pixels[px], 0,
                         DiskCoverage(px, x, y, brushSize), "one",
                         ctx.globalAlpha)],
          globalAlpha |-> ctx.globalAlpha,
          tool |-> tool]

\* A mouse event that reaches draw(e) while tool is selected.
Draw(tool) ==
  /\ Len(hist) <= MaxPasses
  /\ hist' = Append(hist, draw(hist[Len(hist)], tool, arg.x, arg.y, arg.size,
                                arg.opacity, arg.feather))
  /\ UNCHANGED <<sceneVars, taskVars, pageVars, canvasVars, arg,
                 landmarkVars, v5Vars, brushVars>>

\* ------------------------------------- init of the landmark page (v8/main.js)

\* The keypoints array of a prediction, named by one of its points.
FaceKeypoints == Corners
\* The lists estimateFaces may resolve with.
PredictionLists == UNION {[1..n -> FaceKeypoints] : n \in 0..MaxFaces}

\* A check that lets every list through.
NoFacesNever(faces) == FALSE

\* predictions.length === 0
NoFaces(faces) == Len(faces) = 0

\* One of the awaits before estimateFaces resolves: loadModels, loadImage,
\* estimateDepth, toCanvasImageSource.
AwaitResolve(from, to) ==
  /\ initPc = from
  /\ initPc' = to
  /\ UNCHANGED <<predictions, overlayKeypoints, sceneKeypoints, errorLogged>>
  /\ UNCHANGED <<sceneVars, taskVars, pageVars, canvasVars, pureVars, v5Vars,
                 brushVars>>

\* The promise init awaits rejects: the catch block logs the error.
AwaitReject ==
  /\ initPc \in {"loadModels", "loadImage", "estimateDepth",
                 "toCanvasImageSource", "estimateFaces"}
  /\ initPc' = "caught"
  /\ errorLogged' = TRUE
  /\ UNCHANGED <<predictions, overlayKeypoints, sceneKeypoints>>
  /\ UNCHANGED <<sceneVars, taskVars, pageVars, canvasVars, pureVars, v5Vars,
                 brushVars>>

\* estimateFaces resolves with faces and init runs to its end: it returns on
\* an empty list; otherwise it reads predictions[0].keypoints (a TypeError on
\* an empty list), draws the overlays and sets up the scenes. overlaysDrawn
\* is FALSE when drawOverlays throws.
EstimateFacesResolve(faces, overlaysDrawn) ==
  /\ initPc = "estimateFaces"
  /\ predictions' = [resolved |-> TRUE, faces |-> faces]
  /\ IF NoFaces(faces)
       THEN /\ initPc' = "returned"
            /\ UNCHANGED <<overlayKeypoints, sceneKeypoints, errorLogged>>
       ELSE IF faces = <<>>
         THEN /\ initPc' = "caught"
              /\ errorLogged' = TRUE
              /\ UNCHANGED <<overlayKeypoints, sceneKeypoints>>
       ELSE IF overlaysDrawn
         THEN /\ initPc' = "done"
              /\ overlayKeypoints' = faces[1]
              /\ sceneKeypoints' = faces[1]
              /\ UNCHANGED errorLogged
       ELSE /\ initPc' = "caught"
            /\ overlayKeypoints' = faces[1]
            /\ errorLogged' = TRUE
            /\ UNCHANGED sceneKeypoints
  /\ UNCHANGED <<sceneVars, taskVars, pageVars, canvasVars, pureVars, v5Vars,
                 brushVars>>

\* ------------------------------ invertCanvasImage by compositing (v8/main.js 294)

\* Pixels a canvas can hold: a fully transparent pixel is transparent black.
CanvasPixels ==
  {p \in MaskPixels : p.a = 0 => (p.r = 0 /\ p.g = 0 /\ p.b = 0)}
CanvasBuffers == [1..NPixels -> CanvasPixels]

\* fillRect with opaque white under globalCompositeOperation "difference":
\* with source alpha 1 the result is opaque, and its colour is
\* (1 - ab) * 1 + ab * |cb - 1| for a backdrop of colour cb and alpha ab.
DifferenceWithWhite(p) ==
  LET blend(c) ==
        ToUint8Clamp(ChannelMax * ChannelMax - p.a * c, ChannelMax)
  IN  [r |-> blend(p.r), g |-> blend(p.g), b |-> blend(p.b), a |-> ChannelMax]

\* clearRect, drawImage(source) over the cleared canvas, then the white
\* difference fill over the whole canvas.
invertByDifference(source) ==
  [i \in 1..Len(source) |-> DifferenceWithWhite(source[i])]

\* invertCanvasImage(ctx, source) with the canvas of the last call as source.
InvertByDifference ==
  /\ Len(hist) <= MaxPasses
  /\ hist' = Append(hist, invertByDifference(hist[Len(hist)]))
  /\ UNCHANGED <<sceneVars, taskVars, pageVars, canvasVars, arg,
                 landmarkVars, v5Vars, brushVars>>

\* ------------------------------------------------------------------ specs

PageInit ==
  /\ SceneInit
  /\ numRequests = 0
  /\ pc = [t \in Tasks |-> "idle"]
  /\ image = [t \in Tasks |-> 0]
  /\ updateId = [t \in Tasks |-> 0]
  /\ depthTexture = [t \in Tasks |-> 0]
  /\ meshBefore = [t \in Tasks |-> 0]
  /\ removedMesh = [t \in Tasks |-> 0]
  /\ rejection = [t \in Tasks |-> "none"]
  /\ currentImage = 0
  /\ depthSlider = DepthSliderDefault
  /\ listeners = 0
  /\ strokes = 0
  /\ thrown = FALSE
  /\ canvasSize = DefaultCanvasSize
  /\ canvasDrawn = 0
  /\ initPc = "loadModels"
  /\ predictions = [resolved |-> FALSE, faces |-> <<>>]
  /\ overlayKeypoints = NoKeypoints
  /\ sceneKeypoints = NoKeypoints
  /\ errorLogged = FALSE
  /\ V5Init
  /\ painting = [k \in ListenerSets |-> FALSE]
  /\ lastEvent = "none"
  /\ drawCalls = 0
  /\ textureUpdates = 0
  /\ toolSelect = "brush"

Init ==
  /\ PageInit
  /\ hist = <<>>
  /\ arg = NoArg

Next ==
  \/ \E img \in Images : Upload(img)
  \/ ToneRangeChange
  \/ \E s \in DepthSliderValues : DepthSliderChange(s)
  \/ \E t \in Tasks : EstimateResolve(t)
  \/ \E t \in Tasks : EstimateReject(t)
  \/ \E t \in Tasks : ConvertResolve(t)
  \/ \E t \in Tasks : LoadResolve(t)
  \/ \E t \in Tasks : LoadReject(t)

Spec == Init /\ [][Next]_vars

\* The promise textureLoader.loadAsync returns settles: the browser ends every
\* load with the image or with an error, and the event loop then resumes the
\* updateMesh call that awaits it.
LoadSettles == \A t \in Tasks : WF_vars(LoadResolve(t) \/ LoadReject(t))

\* ThreeDScene.updateMesh(image, depthTexture) called by any caller: the call
\* runs up to its await of loadAsync.
updateMesh(img) ==
  /\ numRequests < MaxRequests
  /\ numRequests' = numRequests + 1
  /\ image' = [image EXCEPT ![numRequests + 1] = img]
  /\ UpdateMeshEnter(numRequests + 1, TaskTexture(numRequests + 1))
  /\ UNCHANGED <<pageVars, canvasVars, pureVars,
                 landmarkVars, v5Vars, brushVars>>

\* The scene alone, driven by overlapping updateMesh calls.
NextLive ==
  \/ \E img \in Images : updateMesh(img)
  \/ \E t \in Tasks : LoadResolve(t)
  \/ \E t \in Tasks : LoadReject(t)

SpecLive == Init /\ [][NextLive]_vars /\ LoadSettles

NextPaint ==
  \/ \E img \in Images : PaintUpload(img)
  \/ \E s \in DepthSliderValues : DepthSliderChange(s)
  \/ \E t \in Tasks : PaintEstimateResolve(t)
  \/ \E t \in Tasks : EstimateReject(t)
  \/ \E t \in Tasks : PaintConvertResolve(t)
  \/ \E t \in Tasks : LoadResolve(t)
  \/ \E t \in Tasks : LoadReject(t)
  \/ MouseUp

SpecPaint == Init /\ [][NextPaint]_vars

\* The pointer listeners of the painting page alone.
NextBrush ==
  \/ ToolsInitialized
  \/ \E tl \in Tools \cup {"blur"} : ToolSelect(tl)
  \/ \E ev \in {"mousedown", "touchstart"} : PointerDown(ev)
  \/ \E ev \in {"mousemove", "touchmove"} : PointerMove(ev)
  \/ \E ev \in {"mouseup", "touchend"} : PointerUp(ev)
  \/ MouseLeave

SpecBrush == Init /\ [][NextBrush]_vars

\* v5: initThreeJsScene calls, their texture loads and the depth slider.
NextV5 ==
  \/ initThreeJsScene
  \/ \E k \in InitCalls : TextureLoaded(k)
  \/ \E k \in InitCalls : TextureLoadError(k)
  \/ \E s \in DepthSliderValues : V5DepthSliderInput(s)

SpecV5 == Init /\ [][NextV5]_vars

\* normalizeBrightness applied to any buffer of NPixels pixels.
InitNorm ==
  /\ PageInit
  /\ \E b \in Buffers : hist = <<b>>
  /\ arg = NoArg

NextNorm == Normalize

SpecNorm == InitNorm /\ [][NextNorm]_vars

\* The alpha mask applied to any buffer of NPixels pixels, for any tone range.
InitMask ==
  /\ PageInit
  /\ \E b \in MaskBuffers : hist = <<b>>
  /\ \E T \in ToneRanges : arg = [toneRange |-> T]

NextMask == Mask

SpecMask == InitMask /\ [][NextMask]_vars

\* invertCanvasImage applied to any buffer of NPixels pixels.
InitInvert ==
  /\ PageInit
  /\ \E b \in MaskBuffers : hist = <<b>>
  /\ arg = NoArg

NextInvert == Invert

SpecInvert == InitInvert /\ [][NextInvert]_vars

\* The compositing invertCanvasImage applied to any canvas of NPixels pixels.
InitDifference ==
  /\ PageInit
  /\ \E b \in CanvasBuffers : hist = <<b>>
  /\ arg = NoArg

NextDifference == InvertByDifference

SpecDifference == InitDifference /\ [][NextDifference]_vars

\* drawMaskedDepthMap on a new canvas, for keypoints whose outer ring is any
\* simple polygon on the pixel corners.
InitClip ==
  /\ PageInit
  /\ hist = <<NewContext>>
  /\ \E kp \in [1..Len(OuterRingIndices) -> Corners] :
       /\ Simple(createOuterRingPath(kp))
       /\ arg = [keypoints |-> kp]

NextClip == DrawMasked

SpecClip == InitClip /\ [][NextClip]_vars

\* The blur tool at any pixel position of any canvas, for any brush size.
InitBlur ==
  /\ PageInit
  /\ \E b \in BlurBuffers : hist = <<b>>
  /\ \E x \in GridCols, y \in GridRows, size \in BrushSizes :
       arg = [x |-> x, y |-> y, size |-> size]

NextBlur == Blur

SpecBlur == InitBlur /\ [][NextBlur]_vars

\* Brush and eraser strokes at any pixel corner, for any brush settings, on a
\* canvas that holds a depth map.
InitDraw ==
  /\ PageInit
  /\ hist = <<[pixels |-> PaintedCanvas, globalAlpha |-> FullAlpha,
               tool |-> "none"]>>
  /\ \E x \in GridCols, y \in GridRows, size \in BrushSizes,
        opacity \in Opacities, feather \in Feathers :
       arg = [x |-> x, y |-> y, size |-> size, opacity |-> opacity,
              feather |-> feather]

NextDraw == \E tool \in Tools : Draw(tool)

SpecDraw == InitDraw /\ [][NextDraw]_vars

\* init() of the landmark page, called once when the module is loaded.
NextLandmark ==
  \/ AwaitResolve("loadModels", "loadImage")
  \/ AwaitResolve("loadImage", "estimateDepth")
  \/ AwaitResolve("estimateDepth", "toCanvasImageSource")
  \/ AwaitResolve("toCanvasImageSource", "estimateFaces")
  \/ AwaitReject
  \/ \E faces \in PredictionLists, overlaysDrawn \in BOOLEAN :
       EstimateFacesResolve(faces, overlaysDrawn)

SpecLandmark == Init /\ [][NextLandmark]_vars

\* ----------------------------------------------------------------- claims

\* The updateMesh call of task t was made.
Called(t) == pc[t] \in {"loading", "done", "stale", "loadFailed"}
\* The texture load of task t's updateMesh call resolved and the call returned.
Resolved(t) == pc[t] \in {"done", "stale"}
\* Task t holds the highest update id.
Latest(t) == Called(t) /\ updateId[t] = currentUpdateId
\* Mesh m was created and has since been taken out of the scene.
Replaced(m) == pc[m] = "done" /\ mesh # m

\* C1: when updateMesh(A) and then updateMesh(B), the latest call, have both
\* had their texture loads resolved, in either order, the scene holds exactly
\* one mesh, built from B's photo and B's depth texture, and every mesh that was
\* replaced had its geometry and its material disposed exactly once.
C1_StalenessPair ==
  \A a, b \in Tasks :
    (Called(a) /\ Latest(b) /\ updateId[a] < updateId[b]
       /\ Resolved(a) /\ Resolved(b))
    => /\ sceneMeshes = {b}
       /\ mesh = b
       /\ material[b].map = image[b]
       /\ material[b].displacementMap = depthTexture[b]
       /\ material[b].alphaMap = depthTexture[b]
       /\ \A m \in Tasks :
            Replaced(m) => /\ geometryDisposed[m] = 1
                           /\ materialDisposed[m] = 1

\* B was called while A's load was pending (A ended superseded), both loads
\* resolved, and an earlier mesh m had been replaced.
C1_Witness ==
  \E a, b, m \in Tasks :
    /\ pc[a] = "stale" /\ pc[b] = "done" /\ Latest(b)
    /\ updateId[b] = updateId[a] + 1
    /\ Replaced(m) /\ removedMesh[a] = m
    /\ image[a] # image[b]

\* C2: a call whose updateId is lower than currentUpdateId when its load
\* completes changes neither this.mesh nor the scene, and a step that assigns a
\* mesh to this.mesh or adds one to the scene is taken by the call that holds
\* the highest updateId.
C2_LastRequestWins ==
  [][/\ \A t \in Tasks :
          (pc[t] = "loading" /\ pc'[t] # "loading"
             /\ updateId[t] < currentUpdateId)
          => (mesh' = mesh /\ sceneMeshes' = sceneMeshes)
     /\ \A t \in Tasks :
          ((mesh' = t /\ mesh # t) \/ (t \in sceneMeshes' \ sceneMeshes))
          => (pc[t] = "loading" /\ updateId[t] = currentUpdateId)]_vars

\* A later call completed first and built the mesh; the earlier call completed
\* after it and was discarded.
C2_Witness ==
  \E t, u \in Tasks :
    /\ pc[t] = "stale" /\ pc[u] = "done"
    /\ updateId[t] < updateId[u]
    /\ mesh = u /\ sceneMeshes = {u}

\* C3: a call superseded before its texture load completed has, when it
\* returns, removed or disposed no mesh, added none, left this.mesh alone, and
\* released the geometry and the texture it allocated.
C3_AbandonedNoMutation ==
  \A t \in Tasks :
    pc[t] = "stale"
    => /\ removedMesh[t] = 0
       /\ t \notin sceneMeshes
       /\ mesh # t
       /\ geometryDisposed[t] = 1
       /\ textureDisposed[t] = 1

\* C4: the scene holds at most one mesh, and this.mesh is non-null exactly
\* when that mesh is the one in the scene.
C4_SingleMesh ==
  /\ Cardinality(sceneMeshes) <= 1
  /\ (mesh # 0 => sceneMeshes = {mesh})
  /\ (mesh = 0 => sceneMeshes = {})

\* A mesh is shown that replaced an older one, after a stroke end and a depth
\* slider change.
C4_Witness ==
  /\ mesh # 0
  /\ \E m \in Tasks : Replaced(m) /\ removedMesh[mesh] = m
  /\ strokes > 0
  /\ depthSlider # DepthSliderDefault

\* C5: when the texture load of an updateMesh call fails, the mesh displayed
\* before the call is still in the scene, not disposed, and this.mesh refers to
\* it (stated while no later call has been made).
C5_FailureKeepsMesh ==
  \A t \in Tasks :
    (pc[t] = "loadFailed" /\ Latest(t) /\ meshBefore[t] # 0)
    => /\ mesh = meshBefore[t]
       /\ meshBefore[t] \in sceneMeshes
       /\ geometryDisposed[meshBefore[t]] = 0
       /\ materialDisposed[meshBefore[t]] = 0

\* Every request made so far has run to its end without a failure.
AllSettled == \A t \in 1..numRequests : pc[t] \in {"done", "stale"}

\* C6: for requests issued in order through updateSceneWithImage, once all
\* asynchronous work has settled the mesh in the scene is built from the last
\* request's image and depth texture.
C6_LastRequestShown ==
  (numRequests >= 2 /\ AllSettled)
  => /\ mesh = numRequests
     /\ material[numRequests].map = image[numRequests]
     /\ material[numRequests].displacementMap = TaskTexture(numRequests)

\* A depth slider input event, or a stroke end, happens in this step.
SliderStep == depthSlider' # depthSlider
StrokeEndStep == strokes' # strokes

\* C7: updateDisplacementScale and updateDepthTexture never fail; called while
\* this.mesh is null they leave the scene, this.mesh and currentUpdateId as they
\* were; called while a mesh is present they change only that mesh's material
\* (displacementScale, or displacementMap and alphaMap).
C7_MaterialOnly ==
  [][(SliderStep \/ StrokeEndStep)
     => /\ thrown' = FALSE
        /\ UNCHANGED <<currentUpdateId, mesh, sceneMeshes, geometryDisposed,
                       materialDisposed, textureDisposed>>
        /\ mesh = 0 => UNCHANGED material
        /\ \A t \in Tasks : t # mesh => material'[t] = material[t]
        /\ mesh # 0 => material'[mesh].map = material[mesh].map
        /\ (mesh # 0 /\ SliderStep)
           => /\ material'[mesh].displacementMap = material[mesh].displacementMap
              /\ material'[mesh].alphaMap = material[mesh].alphaMap
        /\ (mesh # 0 /\ StrokeEndStep)
           => material'[mesh].displacementScale
                = material[mesh].displacementScale]_vars

\* The slider was moved and a stroke ended although no mesh has ever been
\* created, while a texture load is pending.
C7_Witness ==
  /\ mesh = 0
  /\ \A t \in Tasks : pc[t] # "done"
  /\ \E t \in Tasks : pc[t] = "loading"
  /\ depthSlider # DepthSliderDefault
  /\ strokes > 0
  /\ thrown = FALSE

\* Task t enters updateMesh in this step.
EnterStep(t) == ~Called(t) /\ Called(t)'

\* C8: currentUpdateId starts at 0, every updateMesh call increases it by
\* exactly 1 and captures the new value, nothing else changes it, and the ids
\* captured by different calls differ.
C8_UpdateIdCounter ==
  /\ currentUpdateId = 0
  /\ [][/\ (\E t \in Tasks : EnterStep(t))
           => currentUpdateId' = currentUpdateId + 1
        /\ (\A t \in Tasks : ~EnterStep(t))
           => currentUpdateId' = currentUpdateId
        /\ \A t \in Tasks : EnterStep(t) => updateId'[t] = currentUpdateId'
        /\ \A t \in Tasks : Called(t) => updateId'[t] = updateId[t]
        /\ \A t, u \in Tasks :
             (t # u /\ Called(t)' /\ Called(u)')
             => updateId'[t] # updateId'[u]]_vars

\* Two calls were made in the order opposite to their requests and hold the
\* ids 1 and 2.
C8_Witness ==
  \E t, u \in Tasks :
    /\ t < u
    /\ updateId[u] = 1 /\ updateId[t] = 2
    /\ currentUpdateId = 2

\* The intensity of a pixel of the grayscale depth image: normalizeBrightness
\* reads it from the red channel.
Intensity(p) == p.r
\* The least and the greatest intensity of a buffer.
MinIntensity(data) ==
  CHOOSE lo \in {Intensity(data[i]) : i \in 1..Len(data)} :
    \A i \in 1..Len(data) : lo <= Intensity(data[i])
MaxIntensity(data) ==
  CHOOSE hi \in {Intensity(data[i]) : i \in 1..Len(data)} :
    \A i \in 1..Len(data) : hi >= Intensity(data[i])
\* out is the 8-bit value nearest to (v - lo) / d * 255.
Nearest(out, v, lo, d) ==
  /\ out \in 0..ChannelMax
  /\ 2 * (out * d - (v - lo) * ChannelMax) <= d
  /\ 2 * ((v - lo) * ChannelMax - out * d) <= d

\* C9: normalizeBrightness sets R, G and B of every pixel to
\* (v - min) / max(max - min, 1) * 255 stored as an 8-bit value, where v is the
\* pixel's intensity and min, max are taken over all pixels; alpha is unchanged;
\* when max > min some output pixel is 0 and some is 255.
C9_LinearRescale ==
  \A k \in 1..(Len(hist) - 1) :
    LET in == hist[k]
        out == hist[k + 1]
        lo == MinIntensity(in)
        hi == MaxIntensity(in)
        d == IF hi - lo >= 1 THEN hi - lo ELSE 1
    IN  /\ Len(out) = Len(in)
        /\ \A i \in 1..Len(in) :
             /\ Nearest(out[i].r, Intensity(in[i]), lo, d)
             /\ out[i].g = out[i].r
             /\ out[i].b = out[i].r
             /\ out[i].a = in[i].a
        /\ hi > lo => /\ \E i \in 1..Len(out) : out[i].r = 0
                      /\ \E i \in 1..Len(out) : out[i].r = ChannelMax

\* A buffer with three different intensities and two different alphas was
\* normalized; a pixel strictly between min and max got a value that is
\* neither 0 nor 255 and differs from its input.
C9_Witness ==
  /\ Len(hist) >= 2
  /\ MaxIntensity(hist[1]) > MinIntensity(hist[1]) + 1
  /\ \E i \in 1..NPixels :
       /\ hist[2][i].r \notin {0, ChannelMax}
       /\ hist[2][i].r # hist[1][i].r
  /\ \E i, j \in 1..NPixels : hist[1][i].a # hist[1][j].a

\* C10: applying normalizeBrightness twice yields the same pixel data as
\* applying it once.
C10_Idempotent ==
  \A k \in 2..(Len(hist) - 1) : hist[k + 1] = hist[k]

\* normalizeBrightness ran twice on a buffer whose channels differ and whose
\* first result differs from the input and has a value other than 0 and 255.
C10_Witness ==
  /\ Len(hist) >= 3
  /\ \E i \in 1..NPixels : hist[1][i].g # hist[1][i].r
  /\ hist[2] # hist[1]
  /\ \E i \in 1..NPixels : hist[2][i].r \notin {0, ChannelMax}

\* Every pixel of the buffer has the same intensity.
ConstantIntensity(data) == MaxIntensity(data) = MinIntensity(data)

\* C11: a buffer in which every pixel has the same intensity, whatever that
\* value, is normalized to a buffer whose R, G and B channels are all 0, and
\* the divisor of the rescale is not 0 (it is exactly 1).
C11_ConstantToZero ==
  \A k \in 1..(Len(hist) - 1) :
    ConstantIntensity(hist[k]) =>
      /\ Range(MinIntensity(hist[k]), MaxIntensity(hist[k])) = 1
      /\ \A i \in 1..NPixels :
           /\ hist[k + 1][i].r = 0
           /\ hist[k + 1][i].g = 0
           /\ hist[k + 1][i].b = 0

\* A buffer of constant intensity 100 whose green channel differs was
\* normalized.
C11_Witness ==
  /\ Len(hist) >= 2
  /\ \A i \in 1..NPixels : hist[1][i].r = 100
  /\ \E i \in 1..NPixels : hist[1][i].g # 100

\* C12 as stated: a constant buffer comes back from normalize with the pixel
\* data it had.
C12_ConstantNoOp ==
  \A k \in 1..(Len(hist) - 1) :
    ConstantIntensity(hist[k]) => hist[k + 1] = hist[k]

\* All three colour channels of every pixel are 0.
Black(data) ==
  \A i \in 1..Len(data) : data[i].r = 0 /\ data[i].g = 0 /\ data[i].b = 0

\* C12, amended: a constant buffer comes back black with the alpha it had, so
\* it comes back unchanged exactly when it was black already.
C12_ConstantToBlack ==
  \A k \in 1..(Len(hist) - 1) :
    ConstantIntensity(hist[k]) =>
      /\ Black(hist[k + 1])
      /\ \A i \in 1..NPixels : hist[k + 1][i].a = hist[k][i].a
      /\ (hist[k + 1] = hist[k]) <=> Black(hist[k])

\* Both cases happened: a constant grey buffer changed, a black one did not.
C12_Witness ==
  /\ Len(hist) >= 3
  /\ ConstantIntensity(hist[1])
  /\ ~Black(hist[1])
  /\ hist[2] # hist[1]
  /\ hist[3] = hist[2]
  /\ \E i \in 1..NPixels : hist[1][i].a = 0

\* C13: after the mask loop with tone range T a pixel's alpha is 0 when
\* R + G + B < 3T and 255 when R + G + B >= 3T (a sum of exactly 3T gives 255),
\* whatever its alpha was before, and its R, G and B are the ones it had.
C13_MaskByThreshold ==
  \A k \in 1..(Len(hist) - 1) : \A i \in 1..NPixels :
    LET in == hist[k][i]
        out == hist[k + 1][i]
        sum == in.r + in.g + in.b
    IN  /\ sum < 3 * arg.toneRange => out.a = 0
        /\ sum >= 3 * arg.toneRange => out.a = ChannelMax
        /\ out.r = in.r /\ out.g = in.g /\ out.b = in.b

\* One buffer held a pixel of sum exactly 3T with alpha 0 and a pixel one below
\* 3T with alpha 255; the mask gave the first 255 and the second 0.
C13_Witness ==
  /\ Len(hist) >= 2
  /\ arg.toneRange = 100
  /\ \E i, j \in 1..NPixels :
       /\ hist[1][i] = [r |-> 255, g |-> 0, b |-> 45, a |-> 0]
       /\ hist[2][i].a = ChannelMax
       /\ hist[1][j] = [r |-> 100, g |-> 100, b |-> 99, a |-> 255]
       /\ hist[2][j].a = 0

\* C14: inverting a buffer twice gives back every R, G and B it had, and
\* neither pass changes an alpha value.
C14_InvertInvolution ==
  /\ \A k \in 1..(Len(hist) - 2) : \A i \in 1..NPixels :
       /\ hist[k + 2][i].r = hist[k][i].r
       /\ hist[k + 2][i].g = hist[k][i].g
       /\ hist[k + 2][i].b = hist[k][i].b
  /\ \A k \in 1..(Len(hist) - 1) : \A i \in 1..NPixels :
       hist[k + 1][i].a = hist[k][i].a

\* A buffer with a coloured pixel and three different alpha values was
\* inverted twice, and the first pass changed it.
C14_Witness ==
  /\ Len(hist) >= 3
  /\ hist[2] # hist[1]
  /\ \E i \in 1..NPixels : hist[1][i].r # hist[1][i].g
  /\ {hist[1][i].a : i \in 1..NPixels} = MaskAlphas

\* C15: after drawMaskedDepthMap every pixel outside the outer-ring polygon
\* is cleared, every pixel inside it holds the value the depth image has
\* there, and the clipping region and the stack of saved states are the ones
\* the context had before the call.
C15_ClipToPolygon ==
  LET path == createOuterRingPath(arg.keypoints)
      covered == [px \in Pix |-> Coverage(px, path)]
  IN  \A k \in 1..(Len(hist) - 1) :
        /\ \A px \in Pix :
             /\ covered[px] = "none" => hist[k + 1].pixels[px] = Cleared
             /\ covered[px] = "full" => hist[k + 1].pixels[px] = depthImage[px]
        /\ hist[k + 1].clip = hist[k].clip
        /\ hist[k + 1].stack = hist[k].stack

\* A polygon with a reflex vertex was drawn twice: pixels inside, outside and
\* on its edge exist, and the second call found the depth values of the first
\* on the canvas.
C15_Witness ==
  /\ Len(hist) >= 3
  /\ LET path == createOuterRingPath(arg.keypoints)
     IN  /\ \E i \in 1..Len(path) :
              Cross(path[i], Succ(path, i), Succ(path, (i % Len(path)) + 1))
                * Cross(path[1], path[2], path[3]) < 0
         /\ \E px \in Pix : Coverage(px, path) = "full"
         /\ \E px \in Pix : Coverage(px, path) = "none"
         /\ \E px \in Pix : hist[3].pixels[px] = Blend

\* Pixel px lies wholly inside (wholly outside) the square of side size
\* centred at <<x, y>>, measured in half pixels.
InSquare(px, x, y, size) ==
  /\ 2 * x - size <= 2 * px[1] /\ 2 * px[1] + 2 <= 2 * x + size
  /\ 2 * y - size <= 2 * px[2] /\ 2 * px[2] + 2 <= 2 * y + size
OffSquare(px, x, y, size) ==
  \/ 2 * px[1] + 2 <= 2 * x - size \/ 2 * x + size <= 2 * px[1]
  \/ 2 * px[2] + 2 <= 2 * y - size \/ 2 * y + size <= 2 * px[2]

\* The pixels wholly inside the square.
SquarePixels(x, y, size) == {q \in Pix : InSquare(q, x, y, size)}

\* C16: blurArea at <<x, y>> with size s leaves every pixel outside the
\* square of side s centred there as it was, keeps every alpha, and sets R, G
\* and B of each pixel inside the square to the average of (R + G + B) / 3
\* over the pixels of the square, to the nearest 8-bit values.
C16_BlurCentredSquare ==
  \A k \in 1..(Len(hist) - 1) : \A px \in Pix :
    LET in == hist[k][px]
        out == hist[k + 1][px]
        square == SquarePixels(arg.x, arg.y, arg.size)
        sum == SumOver(square, hist[k])
        n == 3 * Cardinality(square)
    IN  /\ out.a = in.a
        /\ OffSquare(px, arg.x, arg.y, arg.size) => out = in
        /\ (px \in square /\ arg.size % 2 = 0) =>
             /\ out.r = out.g /\ out.g = out.b
             /\ (out.r - 1) * n <= sum /\ sum <= (out.r + 1) * n

\* C17: #depthMapCanvas, the canvas behind every depth texture of the painting
\* page, is as wide and as high as the image whose depth map it holds, in every
\* reachable state.
C17_BufferHasImageSize ==
  canvasDrawn # 0 => canvasSize = ImageSize(canvasDrawn)

\* A depth texture was handed to updateMesh or updateDepthTexture.
HandedOver == (\E t \in Tasks : depthTexture[t] # 0) \/ strokes > 0

\* C18: once a depth texture was handed to the scene, no step changes the
\* pixels or the size of the canvas behind it.
C18_HandedBufferImmutable ==
  [][HandedOver => canvasVars' = canvasVars]_vars

\* C19: an eraser stroke makes every pixel inside the disk of radius
\* brushSize / 2 around the point black, whatever opacity and feather are and
\* whatever stroke came before it, and leaves every pixel outside the disk
\* as it was.
C19_EraserDisk ==
  \A k \in 1..(Len(hist) - 1) :
    hist[k + 1].tool = "eraser" =>
      \A px \in Pix :
        LET covered == DiskCoverage(px, arg.x, arg.y, arg.size)
        IN  /\ covered = "full" => hist[k + 1].pixels[px] = 0
            /\ covered = "none" =>
                 hist[k + 1].pixels[px] = hist[k].pixels[px]

\* An eraser stroke followed a brush stroke of opacity one half that had
\* lightened a pixel inside the disk; another pixel lies outside the disk.
C19_Witness ==
  /\ Len(hist) >= 3
  /\ hist[2].tool = "brush"
  /\ hist[3].tool = "eraser"
  /\ arg.opacity = 10
  /\ arg.feather = 1
  /\ \E px \in Pix :
       /\ DiskCoverage(px, arg.x, arg.y, arg.size) = "full"
       /\ hist[2].pixels[px] # hist[1].pixels[px]
       /\ hist[3].pixels[px] = 0
  /\ \E px \in Pix : DiskCoverage(px, arg.x, arg.y, arg.size) = "none"

\* C20: when estimateFaces resolved with an empty list, init returned without
\* drawing an overlay, without creating a scene and without reaching its
\* catch block; overlays and scenes exist only when there is a prediction, and
\* they were made from the keypoints of the first one.
C20_NoFaceIsNormal ==
  /\ (predictions.resolved /\ predictions.faces = <<>>) =>
       /\ initPc = "returned"
       /\ overlayKeypoints = NoKeypoints
       /\ sceneKeypoints = NoKeypoints
       /\ ~errorLogged
  /\ (overlayKeypoints # NoKeypoints \/ sceneKeypoints # NoKeypoints) =>
       /\ predictions.resolved
       /\ Len(predictions.faces) >= 1
       /\ overlayKeypoints = predictions.faces[1]
       /\ sceneKeypoints \in {NoKeypoints, predictions.faces[1]}

\* estimateFaces resolved with an empty list and init returned.
C20_Witness ==
  /\ predictions.resolved
  /\ predictions.faces = <<>>
  /\ initPc = "returned"

\* C21: when estimateDepth or the photo texture load of an update request
\* rejected, the promise of updateSceneWithImage / updateMesh is rejected with
\* that failure; a request that resolved had no rejected await.
C21_FailureSurfaced ==
  \A t \in Tasks :
    /\ rejection[t] = "estimateDepth" => pc[t] = "estimateFailed"
    /\ rejection[t] = "loadAsync" => pc[t] = "loadFailed"
    /\ pc[t] \in {"done", "stale"} => rejection[t] = "none"

\* One request failed in the depth estimation, another in the texture load,
\* the latter while it was the latest call and while a superseded one.
C21_Witness ==
  /\ \E t \in Tasks : rejection[t] = "estimateDepth"
  /\ \E t \in Tasks : rejection[t] = "loadAsync" /\ Latest(t)
  /\ \E t \in Tasks : rejection[t] = "loadAsync" /\ ~Latest(t)

\* C22: the compositing invertCanvasImage maps every colour channel c of
\* every pixel of the source to 255 - c and leaves its alpha as it was,
\* fully transparent pixels included.
C22_DifferenceInverts ==
  \A k \in 1..(Len(hist) - 1) : \A i \in 1..NPixels :
    /\ hist[k + 1][i].r = ChannelMax - hist[k][i].r
    /\ hist[k + 1][i].g = ChannelMax - hist[k][i].g
    /\ hist[k + 1][i].b = ChannelMax - hist[k][i].b
    /\ hist[k + 1][i].a = hist[k][i].a

\* C25: when the most recently started updateMesh call's texture load
\* succeeds, this.mesh eventually is the mesh built from that call's depth
\* texture and photo, whatever the earlier overlapping calls do: a call that
\* awaits its load while it is the latest one either is superseded by a newer
\* call, or its load fails, or its mesh becomes this.mesh, and that mesh stays
\* for as long as the call is the latest.
C25_LatestMeshAppears ==
  /\ \A t \in Tasks :
       (Latest(t) /\ pc[t] = "loading")
       ~> \/ ~Latest(t)
          \/ pc[t] = "loadFailed"
          \/ /\ mesh = t
             /\ material[t].map = image[t]
             /\ material[t].displacementMap = depthTexture[t]
  /\ [](\A t \in Tasks : (Latest(t) /\ pc[t] = "done") => mesh = t)

\* The latest call's mesh is in place after one earlier call turned out stale
\* and the load of another earlier call failed.
C25_Witness ==
  \E t, u, v \in Tasks :
    /\ Latest(t) /\ pc[t] = "done" /\ mesh = t
    /\ pc[u] = "stale"
    /\ pc[v] = "loadFailed"

\* C26: whenever a mesh is present, its material's displacementScale is -0.2
\* times the depth slider's value (1 while the slider was never moved), also
\* for a mesh created after the slider was moved.
C26_ScaleFollowsSlider ==
  mesh # 0 => material[mesh].displacementScale = -(depthSlider * ScaleFactor)

\* C30: on the painting page, whenever a mesh is present its material's
\* displacementMap and alphaMap are the same depth texture, after any
\* sequence of updateMesh and updateDepthTexture calls.
C30_MapsAgree ==
  mesh # 0 => material[mesh].displacementMap = material[mesh].alphaMap

\* The mesh of a second upload carries the texture a stroke end handed over.
C30_Witness ==
  /\ mesh # 0
  /\ removedMesh[mesh] # 0
  /\ material[mesh].displacementMap = StrokeTexture(1)
  /\ material[mesh].alphaMap = StrokeTexture(1)

C24_OnePlane ==
  /\ Cardinality(sceneChildren) <= 1
  /\ sceneChildren # {} => plane \in sceneChildren

\* The pointer events by kind.
DownEvents == {"mousedown", "touchstart"}
MoveEvents == {"mousemove", "touchmove"}
UpEvents == {"mouseup", "touchend"}

\* C27: on the painting page one pointer event applies one stroke: a
\* mousedown, touchstart, or a move while painting calls draw exactly once,
\* and a mouseup or touchend calls updateDepthTexture exactly once, however
\* many images were uploaded before.
C27_OneStrokePerEvent ==
  /\ lastEvent \in DownEvents => drawCalls = 1
  /\ lastEvent \in MoveEvents => drawCalls <= 1
  /\ lastEvent \in UpEvents => textureUpdates = 1

\* A step of the pointer listeners: no listeners are added, no tool is chosen.
PointerStep == listeners' = listeners /\ toolSelect' = toolSelect

\* The sets of listeners whose painting flag is set.
Painting == {k \in Registered : painting[k]}

\* C28: on the painting page the paint tools modify the canvas only while the
\* painting flag is true: mousedown and touchstart set the flag, mouseup,
\* touchend and mouseleave clear it, and a mousemove or touchmove received
\* while the flag is false calls no draw.
C28_DrawOnlyWhilePainting ==
  [][PointerStep
     => /\ lastEvent' \in DownEvents => \A k \in Registered : painting'[k]
        /\ lastEvent' \in UpEvents \cup {"mouseleave"}
           => \A k \in ListenerSets : ~painting'[k]
        /\ lastEvent' \in MoveEvents
           => /\ painting' = painting
              /\ drawCalls' = Cardinality(Painting)
              /\ Painting = {} => drawCalls' = 0
        /\ drawCalls' > 0 => Painting' # {}]_vars

\* After a stroke that ended with mouseup, a mousemove drew nothing.
C28_Witness ==
  /\ strokes > 0
  /\ lastEvent = "mousemove"
  /\ drawCalls = 0
  /\ Painting = {}

\* C29: on the painting page every end of a stroke, that is every change of a
\* painting flag from true to false, by mouseup, touchend or mouseleave, comes
\* with a call of ThreeDScene.updateDepthTexture with a texture of the canvas.
C29_StrokeEndRefreshes ==
  [][(\E k \in ListenerSets : painting[k] /\ ~painting'[k])
     => textureUpdates' >= 1]_vars

====
